---------------------------- MODULE Spec2Model ----------------------------
(***************************************************************************)
(* Pulse: liveness reporting.                                              *)
(*                                                                         *)
(* Server side: the HTTP handlers of the ingestion service (Register,      *)
(* Update, Heartbeat) in their three source variants, in front of the      *)
(* PostgreSQL tables agents / agent_updates / agent_heartbeats.            *)
(* Client side: the Agent of package agent with its one-shot calls and its *)
(* ticker-driven heartbeat goroutine.                                      *)
(***************************************************************************)
EXTENDS Integers, Sequences, FiniteSets, TLC

VARIABLES
    variant,      \* which handler set the server routes to
    agents,       \* table agents (workers): a set of rows
    updates,      \* table agent_updates: rows in insertion order
    heartbeats,   \* table agent_heartbeats: rows in insertion order
    now,          \* the store's clock, read by now()
    last,         \* the most recent request: what was decoded and what was answered
    registered,   \* history: the UUIDs for which a Register has succeeded
    inflight,     \* event statements the store has started and not yet finished
    AllowedAgentTypes,  \* handlers.AllowedAgentTypes: the slice app.New assigns
    intervalEnv,  \* the value of PULSE_HEARTBEAT_INTERVAL when New ran
    heartbeat,    \* Agent.heartbeat: the interval, in seconds
    stopChan,     \* Agent.stopChan: "open" or "closed"
    loops,        \* the goroutines StartHeartbeatLoop has started, in start order
    log,          \* how many lines of each kind the heartbeat goroutines logged
    hist,         \* history: ticker fires, heartbeat calls started
    panicked,     \* the client process died of a runtime panic
    result        \* what the last one-shot client call returned

serverVars ==
    <<variant, agents, updates, heartbeats, now, last, registered, inflight,
      AllowedAgentTypes>>
clientVars ==
    <<intervalEnv, heartbeat, stopChan, loops, log, hist, panicked, result>>
vars == <<serverVars, clientVars>>

---------------------------------------------------------------------------
(* Bounds of the model *)

MaxEvents == 1      \* rows per event table that raw requests may fill
MaxTicks == 2       \* ticker fires, over all tickers
MaxStarts == 2      \* calls of StartHeartbeatLoop
MaxTime == 1        \* readings of the store's clock after the first
MaxRows == 2        \* event statements of concurrent requests
MaxEnvLen == 3      \* tokens in the value of ALLOWED_AGENT_TYPES
MaxInflight == 2    \* Register requests in flight at once

---------------------------------------------------------------------------
(* Vocabulary *)

\* the status columns typed TEXT instead of agent_state: any string is stored
agent_state_text ==
    {"starting", "healthy", "working", "idle", "error",
     "unreachable", "crashed", "stopped", "disabled", "invalid_status", ""}

\* CREATE TYPE agent_state AS ENUM (...)
agent_state ==
    {"starting", "healthy", "working", "idle", "error",
     "unreachable", "crashed", "stopped", "disabled"}

\* an allow-list that lacks the last two states
allowedAgentStatusShort ==
    {"starting", "healthy", "working", "idle", "error", "unreachable", "crashed"}

\* an allow-list with one entry the enum does not have
allowedAgentStatusWide ==
    {"starting", "healthy", "working", "idle",
     "error", "unreachable", "crashed", "stopped", "disabled", "invalid_status"}

\* var allowedAgentStatus = map[string]bool{...}
allowedAgentStatus ==
    {"starting", "healthy", "working", "idle",
     "error", "unreachable", "crashed", "stopped", "disabled"}

\* var allowedAgentTypes = map[string]bool{"default": true}
allowedAgentTypes == {"default"}

\* SQL NULL, the value of a column no statement has set
SQLNULL == "<NULL>"

---------------------------------------------------------------------------
(* Request inputs *)

Variants == {"agent", "worker", "worker_info"}

\* uuid.Parse: the canonical UUID of a string, case-insensitively, or an error
uuidParse(s) ==
    CASE s \in {"u1", "U1"} -> [err |-> FALSE, id |-> "u1"]
      [] s \in {"u2", "U2"} -> [err |-> FALSE, id |-> "u2"]
      [] OTHER -> [err |-> TRUE, id |-> "nil"]

\* json.Marshal(req.Info): a nil map encodes as the JSON text null
jsonMarshalInfo(info) == IF info = "absent" THEN "null" ELSE "{k:v}"

\* The JSON bodies of the three endpoints.  A missing field decodes to the
\* zero value, so "" stands for both missing and empty.
RegisterBodiesOf(ids, names, types, infos) ==
    [malformed : {FALSE}, id : ids, name : names, type : types, info : infos]

\* an update body may carry the text under "message", under "info", or both
UpdateBodiesOf(ids, statuses, messages) ==
    [malformed : {FALSE}, id : ids, status : statuses,
     message : messages, info : messages]

HeartbeatBodiesOf(ids, statuses) ==
    [malformed : {FALSE}, id : ids, status : statuses]

MalformedBody ==
    [malformed |-> TRUE, id |-> "", name |-> "", type |-> "", info |-> "absent",
     status |-> "", message |-> ""]

\* registration requests: two spellings of one UUID, another UUID, no UUID
RegisterBodies ==
    RegisterBodiesOf({"u1", "U1", "u2", "not-a-uuid"}, {"", "w1", "w2"},
                     {"", "default", "bot"}, {"absent", "object"})
    \cup {MalformedBody}

\* the registrations that precede events
FewRegisterBodies ==
    RegisterBodiesOf({"u1", "U2"}, {"w1"}, {"default"}, {"absent"})

UpdateBodies ==
    UpdateBodiesOf({"u1", "U2", "not-a-uuid"}, {"", "healthy", "stopped", "invalid_status"},
                   {"", "all systems go"})
    \cup {MalformedBody}

HeartbeatBodies ==
    HeartbeatBodiesOf({"u1", "U2", "not-a-uuid"}, {"", "healthy", "stopped", "invalid_status"})
    \cup {MalformedBody}

\* one agent reporting each status of the vocabulary in turn, as
\* TestAgentUpdateHandler_Success and TestAgentHeartbeatHandler_Success do
\* for "healthy"
\* Register requests of concurrent clients for one id: no two agree in name
\* or, where the type differs, in type
ConcurrentRegisterBodies ==
    {[malformed |-> FALSE, id |-> "u1", name |-> p[1], type |-> p[2],
      info |-> "absent"] :
        p \in {<<"w1", "default">>, <<"w2", "bot">>, <<"w3", "default">>}}

OneRegisterBody == RegisterBodiesOf({"u1"}, {"w1"}, {"default"}, {"absent"})

StatusUpdateBodies ==
    UpdateBodiesOf({"u1"}, agent_state, {"all systems go"})

StatusHeartbeatBodies == HeartbeatBodiesOf({"u1"}, agent_state)

\* requests of one agent that also carry a timestamp of the sender's; the
\* request structs have no field for it
TimedUpdateBodies ==
    [malformed : {FALSE}, id : {"u1"}, status : {"healthy", "stopped"},
     message : {""}, info : {""}, time : {"2001-01-01T00:00:00Z"}]

TimedHeartbeatBodies ==
    [malformed : {FALSE}, id : {"u1"}, status : {"healthy", "stopped"},
     time : {"2001-01-01T00:00:00Z"}]

---------------------------------------------------------------------------
(* Deployment configuration: app.New reads ALLOWED_AGENT_TYPES.  A value is  *)
(* a sequence of tokens: words, the comma and the blank.                     *)

EnvTokens == {"default", "bot", ",", " "}

\* the values the variable can have; the empty one is the unset variable
TypesEnvs == UNION {[1..n -> EnvTokens] : n \in 0..MaxEnvLen}

\* strings.Split(s, ","): the pieces between the commas, empty ones included
RECURSIVE Split(_)
Split(s) ==
    IF \A i \in DOMAIN s : s[i] # "," THEN <<s>>
    ELSE LET k == CHOOSE i \in DOMAIN s :
                      s[i] = "," /\ \A j \in 1..(i - 1) : s[j] # ","
         IN  <<SubSeq(s, 1, k - 1)>> \o Split(SubSeq(s, k + 1, Len(s)))

\* strings.TrimSpace: without the blanks at either end
RECURSIVE TrimSpace(_)
TrimSpace(s) ==
    IF s = <<>> THEN s
    ELSE IF s[1] = " " THEN TrimSpace(Tail(s))
    ELSE IF s[Len(s)] = " " THEN TrimSpace(SubSeq(s, 1, Len(s) - 1))
    ELSE s

\* the value app.New assigns to handlers.AllowedAgentTypes
ConfiguredTypes(env) ==
    IF env = <<>> THEN << <<"default">> >>
    ELSE [i \in DOMAIN Split(env) |-> TrimSpace(Split(env)[i])]

\* the text of a type name as a sequence of tokens
TypeText(t) == IF t = "" THEN <<>> ELSE <<t>>

\* registrations of one agent under each type
TypedRegisterBodies ==
    RegisterBodiesOf({"u1"}, {"w1"}, {"", "default", "bot"}, {"absent"})

---------------------------------------------------------------------------
(* The store: db.Pool.Exec of the handlers' statements on the tables *)

Row(id) == {r \in agents : r.id = id}

\* INSERT INTO agents (id, name, type) VALUES ($1, $2, $3)
ExecInsertAgent(up, id, name, type) ==
    IF ~up THEN [err |-> "conn", agents |-> agents]
    ELSE IF Row(id) # {} THEN [err |-> "23505", agents |-> agents]
    ELSE [err |-> "",
          agents |-> agents \cup
              {[time |-> now, id |-> id, name |-> name, type |-> type,
                info |-> SQLNULL]}]

\* a registration that replaces the table by the one row
ExecUpsertWorkerAlone(up, id, name, type) ==
    IF ~up THEN [err |-> "conn", agents |-> agents]
    ELSE [err |-> "",
          agents |-> {[time |-> now, id |-> id, name |-> name, type |-> type,
                       info |-> SQLNULL]}]

\* an upsert that marks the row it finds
ExecUpsertWorkerMarking(up, id, name, type) ==
    IF ~up THEN [err |-> "conn", agents |-> agents]
    ELSE IF Row(id) # {}
    THEN [err |-> "",
          agents |-> (agents \ Row(id)) \cup
              {[r EXCEPT !.name = name, !.type = "again", !.time = now] : r \in Row(id)}]
    ELSE [err |-> "",
          agents |-> agents \cup
              {[time |-> now, id |-> id, name |-> name, type |-> type,
                info |-> SQLNULL]}]

\* INSERT INTO workers (id, name, type) ... ON CONFLICT (id) DO UPDATE SET
\* name = EXCLUDED.name, type = EXCLUDED.type, time = now()
ExecUpsertWorker(up, id, name, type) ==
    IF ~up THEN [err |-> "conn", agents |-> agents]
    ELSE IF Row(id) # {}
    THEN [err |-> "",
          agents |-> (agents \ Row(id)) \cup
              {[r EXCEPT !.name = name, !.type = type, !.time = now] : r \in Row(id)}]
    ELSE [err |-> "",
          agents |-> agents \cup
              {[time |-> now, id |-> id, name |-> name, type |-> type,
                info |-> SQLNULL]}]

\* INSERT INTO workers (id, name, type, info) ... ON CONFLICT (id) DO UPDATE SET
\* name, type, info = EXCLUDED.*, time = now()
ExecUpsertWorkerInfo(up, id, name, type, info) ==
    IF ~up THEN [err |-> "conn", agents |-> agents]
    ELSE [err |-> "",
          agents |-> (agents \ Row(id)) \cup
              {[time |-> now, id |-> id, name |-> name, type |-> type,
                info |-> info]}]

\* the insert with the status cast to text first: the enum no longer rejects it
ExecInsertUpdateUnchecked(up, id, status, message) ==
    IF ~up THEN [err |-> "conn", rows |-> updates]
    ELSE IF Row(id) = {} THEN [err |-> "23503", rows |-> updates]
    ELSE [err |-> "",
          rows |-> Append(updates,
              [time |-> now, agent_id |-> id, status |-> status,
               message |-> message])]

\* a store that keeps one status row per agent: the new row replaces the old
ExecInsertUpdateLatest(up, id, status, message) ==
    IF ~up THEN [err |-> "conn", rows |-> updates]
    ELSE IF status \notin agent_state THEN [err |-> "22P02", rows |-> updates]
    ELSE IF Row(id) = {} THEN [err |-> "23503", rows |-> updates]
    ELSE [err |-> "",
          rows |-> Append(SelectSeq(updates, LAMBDA e : e.agent_id # id),
              [time |-> now, agent_id |-> id, status |-> status,
               message |-> message])]

\* INSERT INTO agent_updates (agent_id, status, message) VALUES ($1, $2, $3)
\* status agent_state NOT NULL; agent_id REFERENCES agents(id)
ExecInsertUpdate(up, id, status, message) ==
    IF ~up THEN [err |-> "conn", rows |-> updates]
    ELSE IF status \notin agent_state THEN [err |-> "22P02", rows |-> updates]
    ELSE IF Row(id) = {} THEN [err |-> "23503", rows |-> updates]
    ELSE [err |-> "",
          rows |-> Append(updates,
              [time |-> now, agent_id |-> id, status |-> status,
               message |-> message])]

\* INSERT INTO agent_heartbeats (agent_id, status) VALUES ($1, $2)
\* the insert into a table without the foreign key on agent_id
ExecInsertHeartbeatOrphan(up, id, status) ==
    IF ~up THEN [err |-> "conn", rows |-> heartbeats]
    ELSE IF status \notin agent_state THEN [err |-> "22P02", rows |-> heartbeats]
    ELSE [err |-> "",
          rows |-> Append(heartbeats,
              [time |-> now, agent_id |-> id, status |-> status])]

ExecInsertHeartbeat(up, id, status) ==
    IF ~up THEN [err |-> "conn", rows |-> heartbeats]
    ELSE IF status \notin agent_state THEN [err |-> "22P02", rows |-> heartbeats]
    ELSE IF Row(id) = {} THEN [err |-> "23503", rows |-> heartbeats]
    ELSE [err |-> "",
          rows |-> Append(heartbeats,
              [time |-> now, agent_id |-> id, status |-> status])]

---------------------------------------------------------------------------
(* The handlers.  Each operator is one handler run on one body with the     *)
(* store reachable (up) or not: what it decoded, what it answered, how many *)
(* statements it sent to the store, and the table it leaves.                *)

NoReq == [id |-> "", name |-> "", type |-> "", info |-> "absent",
          status |-> "", message |-> ""]

Reply(req, code, error, execs, dberr, table) ==
    [req |-> req, code |-> code, error |-> error, execs |-> execs,
     dberr |-> dberr, table |-> table]

\* c.BodyParser(&req) into AgentRegisterRequest / WorkerRegisterRequest{ID, Name, Type}
ParseRegisterRequest(body) ==
    [NoReq EXCEPT !.id = body.id, !.name = body.name, !.type = body.type]

\* c.BodyParser(&req) into WorkerRegisterRequest{ID, Name, Type, Info}
ParseRegisterInfoRequest(body) ==
    [NoReq EXCEPT !.id = body.id, !.name = body.name, !.type = body.type,
                  !.info = body.info]

\* c.BodyParser(&req) into AgentUpdateRequest: Message is tagged json:"info"
ParseUpdateRequest(body) ==
    [NoReq EXCEPT !.id = body.id, !.status = body.status, !.message = body.info]

\* c.BodyParser(&req) into AgentHeartbeatRequest{ID, Status}
ParseHeartbeatRequest(body) ==
    [NoReq EXCEPT !.id = body.id, !.status = body.status]

\* func AgentRegisterHandler
AgentRegister(body, up) ==
    LET req == ParseRegisterRequest(body)
        u == uuidParse(req.id)
        r == ExecInsertAgent(up, u.id, req.name, req.type)
    IN  IF body.malformed
        THEN Reply(NoReq, 400, "invalid request body", 0, "", agents)
        ELSE IF u.err THEN Reply(req, 400, "invalid UUID", 0, "", agents)
        ELSE IF req.name = "" THEN Reply(req, 400, "name is required", 0, "", agents)
        ELSE IF req.type \notin allowedAgentTypes
        THEN Reply(req, 400, "invalid Agent type", 0, "", agents)
        ELSE IF r.err = "23505"
        THEN Reply(req, 409, "Agent ID already exists", 1, r.err, r.agents)
        ELSE IF r.err # ""
        THEN Reply(req, 500, "failed to register Agent", 1, r.err, r.agents)
        ELSE Reply(req, 200, "", 1, "", r.agents)

\* func WorkerRegisterHandler (upsert of id, name, type)
WorkerRegister(body, up) ==
    LET req == ParseRegisterRequest(body)
        u == uuidParse(req.id)
        r == ExecUpsertWorker(up, u.id, req.name, req.type)
    IN  IF body.malformed
        THEN Reply(NoReq, 400, "invalid request body", 0, "", agents)
        ELSE IF u.err THEN Reply(req, 400, "invalid UUID", 0, "", agents)
        ELSE IF req.name = "" THEN Reply(req, 400, "name is required", 0, "", agents)
        ELSE IF r.err # ""
        THEN Reply(req, 500, "failed to register worker", 1, r.err, r.agents)
        ELSE Reply(req, 200, "", 1, "", r.agents)

\* func WorkerRegisterHandler (upsert of id, name, type, info)
WorkerRegisterInfo(body, up) ==
    LET req == ParseRegisterInfoRequest(body)
        u == uuidParse(req.id)
        r == ExecUpsertWorkerInfo(up, u.id, req.name, req.type,
                                  jsonMarshalInfo(req.info))
    IN  IF body.malformed
        THEN Reply(NoReq, 400, "invalid request body", 0, "", agents)
        ELSE IF u.err THEN Reply(req, 400, "invalid UUID", 0, "", agents)
        ELSE IF req.name = "" THEN Reply(req, 400, "name is required", 0, "", agents)
        ELSE IF r.err # ""
        THEN Reply(req, 500, "failed to register worker", 1, r.err, r.agents)
        ELSE Reply(req, 200, "", 1, "", r.agents)

\* func AgentUpdateHandler
AgentUpdate(body, up) ==
    LET req == ParseUpdateRequest(body)
        u == uuidParse(req.id)
        r == ExecInsertUpdate(up, u.id, req.status, req.message)
    IN  IF body.malformed
        THEN Reply(NoReq, 400, "invalid request body", 0, "", updates)
        ELSE IF u.err THEN Reply(req, 400, "invalid UUID", 0, "", updates)
        ELSE IF req.status = "" THEN Reply(req, 400, "status is required", 0, "", updates)
        ELSE IF r.err # ""
        THEN Reply(req, 500, "failed to update Agent status", 1, r.err, r.rows)
        ELSE Reply(req, 200, "", 1, "", r.rows)

\* func WorkerUpdateHandler
WorkerUpdate(body, up) ==
    LET req == ParseUpdateRequest(body)
        u == uuidParse(req.id)
        r == ExecInsertUpdate(up, u.id, req.status, req.message)
    IN  IF body.malformed
        THEN Reply(NoReq, 400, "invalid request body", 0, "", updates)
        ELSE IF u.err THEN Reply(req, 400, "invalid UUID", 0, "", updates)
        ELSE IF r.err # ""
        THEN Reply(req, 500, "failed to update worker status", 1, r.err, r.rows)
        ELSE Reply(req, 200, "", 1, "", r.rows)

\* a heartbeat handler that answers 200 whatever Exec returned
AgentHeartbeatUnchecked(body, up) ==
    LET req == ParseHeartbeatRequest(body)
        u == uuidParse(req.id)
        r == ExecInsertHeartbeat(up, u.id, req.status)
    IN  IF body.malformed
        THEN Reply(NoReq, 400, "invalid request body", 0, "", heartbeats)
        ELSE IF u.err THEN Reply(req, 400, "invalid UUID", 0, "", heartbeats)
        ELSE Reply(req, 200, "", 1, r.err, r.rows)

\* func AgentHeartbeatHandler
AgentHeartbeat(body, up) ==
    LET req == ParseHeartbeatRequest(body)
        u == uuidParse(req.id)
        r == ExecInsertHeartbeat(up, u.id, req.status)
    IN  IF body.malformed
        THEN Reply(NoReq, 400, "invalid request body", 0, "", heartbeats)
        ELSE IF u.err THEN Reply(req, 400, "invalid UUID", 0, "", heartbeats)
        ELSE IF req.status = "" THEN Reply(req, 400, "status is required", 0, "", heartbeats)
        ELSE IF req.status \notin allowedAgentStatus
        THEN Reply(req, 400, "invalid status value", 0, "", heartbeats)
        ELSE IF r.err # ""
        THEN Reply(req, 500, "failed to insert heartbeat", 1, r.err, r.rows)
        ELSE Reply(req, 200, "", 1, "", r.rows)

\* func WorkerHeartbeatHandler
WorkerHeartbeat(body, up) ==
    LET req == ParseHeartbeatRequest(body)
        u == uuidParse(req.id)
        r == ExecInsertHeartbeat(up, u.id, req.status)
    IN  IF body.malformed
        THEN Reply(NoReq, 400, "invalid request body", 0, "", heartbeats)
        ELSE IF u.err THEN Reply(req, 400, "invalid UUID", 0, "", heartbeats)
        ELSE IF r.err # ""
        THEN Reply(req, 500, "failed to insert heartbeat", 1, r.err, r.rows)
        ELSE Reply(req, 200, "", 1, "", r.rows)

\* the handler a deployment routes each endpoint to
RegisterOf(v, body, up) ==
    CASE v = "agent" -> AgentRegister(body, up)
      [] v = "worker" -> WorkerRegister(body, up)
      [] OTHER -> WorkerRegisterInfo(body, up)

UpdateOf(v, body, up) ==
    IF v = "agent" THEN AgentUpdate(body, up) ELSE WorkerUpdate(body, up)

HeartbeatOf(v, body, up) ==
    IF v = "agent" THEN AgentHeartbeat(body, up) ELSE WorkerHeartbeat(body, up)

\* what the request left behind for the observer
Served(op, rep, appended) ==
    [op |-> op, req |-> rep.req, uuid |-> uuidParse(rep.req.id).id,
     code |-> rep.code, error |-> rep.error, execs |-> rep.execs,
     dberr |-> rep.dberr, appended |-> appended]

---------------------------------------------------------------------------
(* Server actions: one inbound request each *)

Registered(op, rep) ==
    IF op = "register" /\ rep.code = 200
    THEN registered \cup {uuidParse(rep.req.id).id}
    ELSE registered

\* POST <group>/register
RegisterHandler(bodies) ==
    \E body \in bodies, up \in BOOLEAN :
        LET rep == RegisterOf(variant, body, up)
        IN  /\ agents' = rep.table
            /\ last' = Served("register", rep, 0)
            /\ registered' = Registered("register", rep)
            /\ UNCHANGED <<AllowedAgentTypes, variant, updates, heartbeats, now, inflight>>
            /\ UNCHANGED clientVars

\* POST <group>/update
UpdateHandler(bodies) ==
    /\ Len(updates) < MaxEvents
    /\ \E body \in bodies, up \in BOOLEAN :
        LET rep == UpdateOf(variant, body, up)
        IN  /\ updates' = rep.table
            /\ last' = Served("update", rep, Len(rep.table) - Len(updates))
            /\ UNCHANGED <<AllowedAgentTypes, variant, agents, heartbeats, now, registered, inflight>>
            /\ UNCHANGED clientVars

\* POST <group>/heartbeat
HeartbeatHandler(bodies) ==
    /\ Len(heartbeats) < MaxEvents
    /\ \E body \in bodies, up \in BOOLEAN :
        LET rep == HeartbeatOf(variant, body, up)
        IN  /\ heartbeats' = rep.table
            /\ last' = Served("heartbeat", rep, Len(rep.table) - Len(heartbeats))
            /\ UNCHANGED <<AllowedAgentTypes, variant, agents, updates, now, registered, inflight>>
            /\ UNCHANGED clientVars

\* time TIMESTAMPTZ NOT NULL DEFAULT now(): now() is the time at which the
\* statement's transaction started, whenever the row is written
StampedAtStart(rows, old, start) ==
    IF Len(rows) > Len(old) THEN [rows EXCEPT ![Len(rows)].time = start] ELSE rows

\* the store's clock advances
ClockTick ==
    /\ now < MaxTime
    /\ now' = now + 1
    /\ UNCHANGED <<AllowedAgentTypes, variant, agents, updates, heartbeats, last, registered, inflight>>
    /\ UNCHANGED clientVars

\* a handler goroutine has called db.Pool.Exec and the store has started the
\* statement; other requests are served before it finishes
EventBegin(op, bodies) ==
    /\ Len(updates) + Len(heartbeats) + Cardinality(inflight) < MaxRows
    /\ \E body \in bodies :
        inflight' = inflight \cup {[op |-> op, body |-> body, start |-> now]}
    /\ UNCHANGED <<AllowedAgentTypes, variant, agents, updates, heartbeats, now, last, registered>>
    /\ UNCHANGED clientVars

UpdateBegin == EventBegin("update", TimedUpdateBodies)

HeartbeatBegin == EventBegin("heartbeat", TimedHeartbeatBodies)

\* the statement of a started update finishes and the handler answers
UpdateEnd ==
    /\ \E s \in inflight, up \in BOOLEAN :
        LET rep == UpdateOf(variant, s.body, up)
        IN  /\ s.op = "update"
            /\ updates' = StampedAtStart(rep.table, updates, s.start)
            /\ last' = Served("update", rep, Len(rep.table) - Len(updates))
            /\ inflight' = inflight \ {s}
    /\ UNCHANGED <<AllowedAgentTypes, variant, agents, heartbeats, now, registered>>
    /\ UNCHANGED clientVars

\* a heartbeat that also refreshes the last-seen time of the identity record
HeartbeatEndTouching ==
    /\ \E s \in inflight, up \in BOOLEAN :
        LET rep == HeartbeatOf(variant, s.body, up)
        IN  /\ s.op = "heartbeat"
            /\ heartbeats' = StampedAtStart(rep.table, heartbeats, s.start)
            /\ agents' = IF rep.code = 200
                         THEN {IF r.id = uuidParse(rep.req.id).id
                               THEN [r EXCEPT !.time = s.start] ELSE r : r \in agents}
                         ELSE agents
            /\ last' = Served("heartbeat", rep, Len(rep.table) - Len(heartbeats))
            /\ inflight' = inflight \ {s}
    /\ UNCHANGED <<AllowedAgentTypes, variant, updates, now, registered>>
    /\ UNCHANGED clientVars

\* the statement of a started heartbeat finishes and the handler answers
HeartbeatEnd ==
    /\ \E s \in inflight, up \in BOOLEAN :
        LET rep == HeartbeatOf(variant, s.body, up)
        IN  /\ s.op = "heartbeat"
            /\ heartbeats' = StampedAtStart(rep.table, heartbeats, s.start)
            /\ last' = Served("heartbeat", rep, Len(rep.table) - Len(heartbeats))
            /\ inflight' = inflight \ {s}
    /\ UNCHANGED <<AllowedAgentTypes, variant, agents, updates, now, registered>>
    /\ UNCHANGED clientVars

\* the row a finished statement wrote carries the time its transaction started
RowStampedAtStart(table, rp, start) ==
    IF rp.execs = 1 /\ rp.dberr = ""
    THEN {IF r.id = uuidParse(rp.req.id).id THEN [r EXCEPT !.time = start] ELSE r :
             r \in table}
    ELSE table

\* a Register request has arrived and its handler goroutine runs; other
\* requests are served before its statement executes
RegisterBegin ==
    /\ Cardinality(inflight) < MaxInflight
    /\ \E body \in ConcurrentRegisterBodies :
        inflight' = inflight \cup {[op |-> "register", body |-> body, start |-> now]}
    /\ UNCHANGED <<AllowedAgentTypes, variant, agents, updates, heartbeats, now, last, registered>>
    /\ UNCHANGED clientVars

\* the single statement of a started Register executes, atomically, against
\* the rows the statements before it left, and the handler answers
RegisterEnd ==
    /\ \E s \in inflight, up \in BOOLEAN :
        LET rp == RegisterOf(variant, s.body, up)
        IN  /\ s.op = "register"
            /\ agents' = RowStampedAtStart(rp.table, rp, s.start)
            /\ last' = Served("register", rp, 0)
            /\ registered' = Registered("register", rp)
            /\ inflight' = inflight \ {s}
    /\ UNCHANGED <<AllowedAgentTypes, variant, updates, heartbeats, now>>
    /\ UNCHANGED clientVars

\* a foreign key without ON DELETE CASCADE on a store that does not check it:
\* the events of a deleted identity stay
NoCascade(rows, id) == rows

\* agent_id UUID REFERENCES agents(id) ON DELETE CASCADE: the events of the
\* deleted identity go with it
Cascade(rows, id) ==
    SelectSeq(rows, LAMBDA e : e.agent_id # id)

\* DELETE FROM Agents WHERE id = $1, by an administrator or a test's cleanup
DeleteAgent ==
    /\ \E id \in {"u1"} :
        /\ agents' = agents \ Row(id)
        /\ updates' = Cascade(updates, id)
        /\ heartbeats' = Cascade(heartbeats, id)
        /\ last' = Served("delete", Reply([NoReq EXCEPT !.id = id], 0, "", 1, "", {}),
                          (Len(Cascade(updates, id)) - Len(updates))
                          + (Len(Cascade(heartbeats, id)) - Len(heartbeats)))
    /\ UNCHANGED <<AllowedAgentTypes, variant, now, registered, inflight>>
    /\ UNCHANGED clientVars

InitServerEnv(variants, envs) ==
    /\ \E env \in envs : AllowedAgentTypes = ConfiguredTypes(env)
    /\ variant \in variants
    /\ agents = {}
    /\ updates = <<>>
    /\ heartbeats = <<>>
    /\ now = 0
    /\ last = Served("none", Reply(NoReq, 0, "", 0, "", {}), 0)
    /\ registered = {}
    /\ inflight = {}

\* the server with ALLOWED_AGENT_TYPES unset
InitServer(variants) == InitServerEnv(variants, {<<>>})

---------------------------------------------------------------------------
(* The client: package agent *)

\* ID: uuid.New() in New; a.ID.String() is its canonical text
AgentID == "u1"
AgentName == "w1"
AgentType == "default"

\* registerPayload{ID, Name, Type, Info omitempty} of Agent.Register
RegisterPayload ==
    [malformed |-> FALSE, id |-> AgentID, name |-> AgentName, type |-> AgentType,
     info |-> "absent"]

\* heartbeatPayload{ID, Status} of Agent.Heartbeat(status)
HeartbeatPayload(status) ==
    [malformed |-> FALSE, id |-> AgentID, status |-> status]

\* updatePayload{ID, Status, Message} of Agent.Update(status, message): the
\* text travels under the key "message"; the body has no key "info"
UpdatePayload(status, message) ==
    [malformed |-> FALSE, id |-> AgentID, status |-> status, message |-> message,
     info |-> ""]

\* the arguments callers pass to the one-shot calls
CallStatuses == {"healthy", "stopped", "invalid_status"}
CallMessages == {"", "all systems go"}

\* how a request of the client can fare on the network: not delivered,
\* answered, or delivered with the answer lost to Client.Timeout
Networks == {"unreachable", "ok", "timeout"}

\* a post that takes any response for success
postAnyResponse(net, code) == IF net # "ok" THEN "post error" ELSE "nil"

\* Agent.post: the error it returns
post(net, code) ==
    IF net # "ok" THEN "post error"
    ELSE IF code # 200 THEN "server returned status"
    ELSE "nil"

\* what a one-shot call of the client was given and what came of it: the
\* arguments, the status code of the response received (0: no response) and
\* the error returned to the caller
Returned(op, status, message, net, code) ==
    [op |-> op, status |-> status, message |-> message,
     code |-> IF net = "ok" THEN code ELSE 0, err |-> post(net, code)]

\* the values of PULSE_HEARTBEAT_INTERVAL; the empty one is the unset variable
IntervalEnvs == {"", "30s", "1m", "abc", "10", "0s", "-5s"}

\* time.ParseDuration: a signed number with a unit, in seconds here
ParseDuration(v) ==
    CASE v = "30s" -> [err |-> FALSE, d |-> 30]
      [] v = "1m" -> [err |-> FALSE, d |-> 60]
      [] v = "0s" -> [err |-> FALSE, d |-> 0]
      [] v = "-5s" -> [err |-> FALSE, d |-> -5]
      [] OTHER -> [err |-> TRUE, d |-> 0]

\* interval := 60 * time.Second // default
DefaultInterval == 60

\* the interval New computes from the environment
Interval(v) ==
    IF v # "" /\ ~ParseDuration(v).err THEN ParseDuration(v).d ELSE DefaultInterval

\* func New: a fresh identity, an interval, an open stop channel, no
\* goroutine yet
InitClientEnv(envs) ==
    /\ intervalEnv \in envs
    /\ heartbeat = Interval(intervalEnv)
    /\ stopChan = "open"
    /\ loops = <<>>
    /\ log = [error |-> 0, sent |-> 0, stopped |-> 0]
    /\ hist = [fired |-> 0, handled |-> 0, afterStop |-> 0, late |-> 0,
               panic |-> ""]
    /\ panicked = FALSE
    /\ result = Returned("none", "", "", "unreachable", 0)

\* New with PULSE_HEARTBEAT_INTERVAL unset
InitClient == InitClientEnv({""})

\* client.Post("register", ...) / ("heartbeat", ...) under app.Group("/agent"):
\* only the agent deployment routes the paths the client posts to
ServeAgentRegister(body, up) ==
    IF variant = "agent" THEN AgentRegister(body, up)
    ELSE Reply(NoReq, 404, "Cannot POST /agent/register", 0, "", agents)

ServeAgentHeartbeat(body, up) ==
    IF variant = "agent" THEN AgentHeartbeat(body, up)
    ELSE Reply(NoReq, 404, "Cannot POST /agent/heartbeat", 0, "", heartbeats)

ServeAgentUpdate(body, up) ==
    IF variant = "agent" THEN AgentUpdate(body, up)
    ELSE Reply(NoReq, 404, "Cannot POST /agent/update", 0, "", updates)

\* a loop that returns on a failed heartbeat
AfterHeartbeatFatal(err) == IF err # "nil" THEN "exited" ELSE "select"

\* the for loop of the goroutine: whatever Heartbeat returned, select again
AfterHeartbeat(err) == "select"

\* close(a.stopChan) readies every goroutine blocked in the select
Woken(ls) ==
    [i \in DOMAIN ls |->
        IF ls[i].pc = "parked" THEN [ls[i] EXCEPT !.pc = "gotStop"] ELSE ls[i]]

Active == {i \in DOMAIN loops : loops[i].pc # "exited"}

\* func (a *Agent) Register
Register ==
    /\ ~panicked
    /\ \E net \in Networks, up \in BOOLEAN :
        LET rep == ServeAgentRegister(RegisterPayload, up)
        IN  /\ IF net = "unreachable"
               THEN UNCHANGED <<agents, last, registered>>
               ELSE /\ agents' = rep.table
                    /\ last' = Served("register", rep, 0)
                    /\ registered' = Registered("register", rep)
            /\ result' = Returned("register", "", "", net, rep.code)
    /\ UNCHANGED <<AllowedAgentTypes, variant, updates, heartbeats, now, inflight>>
    /\ UNCHANGED <<intervalEnv, heartbeat, stopChan, loops, log, hist, panicked>>

\* func (a *Agent) Update
Update ==
    /\ ~panicked
    /\ Len(updates) < MaxEvents
    /\ \E status \in CallStatuses, message \in CallMessages,
          net \in Networks, up \in BOOLEAN :
        LET rep == ServeAgentUpdate(UpdatePayload(status, message), up)
        IN  /\ IF net = "unreachable"
               THEN UNCHANGED <<updates, last>>
               ELSE /\ updates' = rep.table
                    /\ last' = Served("update", rep, Len(rep.table) - Len(updates))
            /\ result' = Returned("update", status, message, net, rep.code)
    /\ UNCHANGED <<AllowedAgentTypes, variant, agents, heartbeats, now, registered, inflight>>
    /\ UNCHANGED <<intervalEnv, heartbeat, stopChan, loops, log, hist, panicked>>

\* func (a *Agent) Heartbeat, called by the application
Heartbeat ==
    /\ ~panicked
    /\ Len(heartbeats) < MaxEvents
    /\ \E status \in CallStatuses, net \in Networks, up \in BOOLEAN :
        LET rep == ServeAgentHeartbeat(HeartbeatPayload(status), up)
        IN  /\ IF net = "unreachable"
               THEN UNCHANGED <<heartbeats, last>>
               ELSE /\ heartbeats' = rep.table
                    /\ last' = Served("heartbeat", rep,
                                      Len(rep.table) - Len(heartbeats))
            /\ result' = Returned("heartbeat", status, "", net, rep.code)
    /\ UNCHANGED <<AllowedAgentTypes, variant, agents, updates, now, registered, inflight>>
    /\ UNCHANGED <<intervalEnv, heartbeat, stopChan, loops, log, hist, panicked>>

\* a start that makes a fresh stop channel for its goroutine
StartHeartbeatLoopFresh ==
    /\ ~panicked
    /\ Len(loops) < MaxStarts
    /\ heartbeat > 0
    /\ stopChan' = "open"
    /\ loops' = Append(loops,
           [pc |-> "select", tick |-> "none", cur |-> "none",
            interval |-> heartbeat, after |-> stopChan = "closed"])
    /\ UNCHANGED <<intervalEnv, heartbeat, log, hist, panicked, result>>
    /\ UNCHANGED serverVars

\* func (a *Agent) StartHeartbeatLoop: a new ticker and a new goroutine;
\* time.NewTicker panics on an interval that is not positive.  The goroutine
\* is recorded with its ticker's interval and with whether the stop channel
\* was already closed when it started.
StartHeartbeatLoop ==
    /\ ~panicked
    /\ Len(loops) < MaxStarts
    /\ IF heartbeat <= 0
       THEN /\ panicked' = TRUE
            /\ hist' = [hist EXCEPT !.panic = "non-positive interval for NewTicker"]
            /\ UNCHANGED loops
       ELSE /\ loops' = Append(loops,
                   [pc |-> "select", tick |-> "none", cur |-> "none",
                    interval |-> heartbeat, after |-> stopChan = "closed"])
            /\ UNCHANGED <<hist, panicked>>
    /\ UNCHANGED <<intervalEnv, heartbeat, stopChan, log, result>>
    /\ UNCHANGED serverVars

\* func (a *Agent) StopHeartbeatLoop: close(a.stopChan); closing a closed
\* channel panics
StopHeartbeatLoop ==
    /\ ~panicked
    /\ IF stopChan = "open"
       THEN /\ stopChan' = "closed"
            /\ loops' = Woken(loops)
            /\ UNCHANGED panicked
            /\ UNCHANGED hist
       ELSE /\ panicked' = TRUE
            /\ hist' = [hist EXCEPT !.panic = "close of closed channel"]
            /\ UNCHANGED <<stopChan, loops>>
    /\ UNCHANGED <<intervalEnv, heartbeat, log, result>>
    /\ UNCHANGED serverVars

\* the runtime fires ticker i: ticker.C holds one tick; a tick that finds it
\* full is dropped, a tick that finds the goroutine blocked is handed to it
TickerFireAt(i) ==
    /\ ~panicked
    /\ loops[i].pc # "exited"
    /\ hist.fired < MaxTicks
    /\ LET stamp == IF stopChan = "closed" THEN "late" ELSE "early"
       IN  loops' =
             IF loops[i].pc = "parked"
             THEN [loops EXCEPT ![i].pc = "gotTick", ![i].cur = stamp]
             ELSE IF loops[i].tick = "none"
             THEN [loops EXCEPT ![i].tick = stamp]
             ELSE loops
    /\ hist' = [hist EXCEPT !.fired = @ + 1]
    /\ UNCHANGED <<intervalEnv, heartbeat, stopChan, log, panicked, result>>
    /\ UNCHANGED serverVars

\* select { case <-ticker.C: ... case <-a.stopChan: ... }: one of the ready
\* cases, chosen by the runtime; none ready blocks the goroutine
LoopSelectAt(i) ==
    /\ ~panicked
    /\ loops[i].pc = "select"
    /\ \/ /\ loops[i].tick # "none"
          /\ loops' = [loops EXCEPT ![i].pc = "gotTick", ![i].cur = loops[i].tick,
                                    ![i].tick = "none"]
       \/ /\ stopChan = "closed"
          /\ loops' = [loops EXCEPT ![i].pc = "gotStop"]
       \/ /\ loops[i].tick = "none"
          /\ stopChan = "open"
          /\ loops' = [loops EXCEPT ![i].pc = "parked"]
    /\ UNCHANGED <<intervalEnv, heartbeat, stopChan, log, hist, panicked, result>>
    /\ UNCHANGED serverVars

\* case <-ticker.C: err := a.Heartbeat("healthy") is called
LoopCallAt(i) ==
    /\ ~panicked
    /\ loops[i].pc = "gotTick"
    /\ loops' = [loops EXCEPT ![i].pc = "call"]
    /\ hist' = [hist EXCEPT !.handled = @ + 1,
                            !.afterStop = IF stopChan = "closed" THEN @ + 1 ELSE @,
                            !.late = IF loops[i].cur = "late" THEN @ + 1 ELSE @]
    /\ UNCHANGED <<intervalEnv, heartbeat, stopChan, log, panicked, result>>
    /\ UNCHANGED serverVars

\* a.Heartbeat("healthy") returns: log the error or the success, loop on
HeartbeatReturnAt(i) ==
    /\ ~panicked
    /\ loops[i].pc = "call"
    /\ \E net \in Networks, up \in BOOLEAN :
        LET rep == ServeAgentHeartbeat(HeartbeatPayload("healthy"), up)
            err == post(net, rep.code)
        IN  /\ IF net = "unreachable"
               THEN UNCHANGED <<heartbeats, last>>
               ELSE /\ heartbeats' = rep.table
                    /\ last' = Served("heartbeat", rep,
                                      Len(rep.table) - Len(heartbeats))
            /\ log' = IF err # "nil"
                      THEN [log EXCEPT !.error = @ + 1]
                      ELSE [log EXCEPT !.sent = @ + 1]
            /\ loops' = [loops EXCEPT ![i].pc = AfterHeartbeat(err),
                                      ![i].cur = "none"]
    /\ UNCHANGED <<AllowedAgentTypes, variant, agents, updates, now, registered, inflight>>
    /\ UNCHANGED <<intervalEnv, heartbeat, stopChan, hist, panicked, result>>

\* case <-a.stopChan: log "heartbeat loop stopped"; return (ticker.Stop deferred)
LoopExitAt(i) ==
    /\ ~panicked
    /\ loops[i].pc = "gotStop"
    /\ loops' = [loops EXCEPT ![i].pc = "exited", ![i].tick = "none"]
    /\ log' = [log EXCEPT !.stopped = @ + 1]
    /\ UNCHANGED <<intervalEnv, heartbeat, stopChan, hist, panicked, result>>
    /\ UNCHANGED serverVars

---------------------------------------------------------------------------
(* The heartbeat goroutine with a ticker that never runs out of ticks.  The *)
(* steps are those above; the counts of ticks and of log lines are not kept. *)

\* a select that takes the stop case only when no tick is waiting
StopCaseAfterTicks(i) == stopChan = "closed" /\ loops[i].tick = "none"

\* case <-a.stopChan is ready: a closed channel is always ready to receive
StopCaseReady(i) == stopChan = "closed"

\* the runtime fires ticker i
TickAt(i) ==
    /\ i \in DOMAIN loops
    /\ ~panicked
    /\ loops[i].pc # "exited"
    /\ LET stamp == IF stopChan = "closed" THEN "late" ELSE "early"
       IN  loops' =
             IF loops[i].pc = "parked"
             THEN [loops EXCEPT ![i].pc = "gotTick", ![i].cur = stamp]
             ELSE IF loops[i].tick = "none"
             THEN [loops EXCEPT ![i].tick = stamp]
             ELSE loops
    /\ UNCHANGED <<intervalEnv, heartbeat, stopChan, log, hist, panicked, result>>
    /\ UNCHANGED serverVars

\* select chooses case <-ticker.C
SelectTickAt(i) ==
    /\ i \in DOMAIN loops
    /\ ~panicked
    /\ loops[i].pc = "select"
    /\ loops[i].tick # "none"
    /\ loops' = [loops EXCEPT ![i].pc = "gotTick", ![i].cur = loops[i].tick,
                              ![i].tick = "none"]
    /\ UNCHANGED <<intervalEnv, heartbeat, stopChan, log, hist, panicked, result>>
    /\ UNCHANGED serverVars

\* select chooses case <-a.stopChan
SelectStopAt(i) ==
    /\ i \in DOMAIN loops
    /\ ~panicked
    /\ loops[i].pc = "select"
    /\ StopCaseReady(i)
    /\ loops' = [loops EXCEPT ![i].pc = "gotStop"]
    /\ UNCHANGED <<intervalEnv, heartbeat, stopChan, log, hist, panicked, result>>
    /\ UNCHANGED serverVars

\* select finds no case ready and blocks
SelectBlockAt(i) ==
    /\ i \in DOMAIN loops
    /\ ~panicked
    /\ loops[i].pc = "select"
    /\ loops[i].tick = "none"
    /\ stopChan = "open"
    /\ loops' = [loops EXCEPT ![i].pc = "parked"]
    /\ UNCHANGED <<intervalEnv, heartbeat, stopChan, log, hist, panicked, result>>
    /\ UNCHANGED serverVars

\* case <-ticker.C: a.Heartbeat("healthy") is called
CallAt(i) ==
    /\ i \in DOMAIN loops
    /\ ~panicked
    /\ loops[i].pc = "gotTick"
    /\ loops' = [loops EXCEPT ![i].pc = "call"]
    /\ UNCHANGED <<intervalEnv, heartbeat, stopChan, log, hist, panicked, result>>
    /\ UNCHANGED serverVars

\* a.Heartbeat("healthy") returns, at the latest after Client.Timeout
ReturnAt(i) ==
    /\ i \in DOMAIN loops
    /\ ~panicked
    /\ loops[i].pc = "call"
    /\ \E net \in Networks, up \in BOOLEAN :
        LET rep == ServeAgentHeartbeat(HeartbeatPayload("healthy"), up)
        IN  /\ IF net = "unreachable"
               THEN UNCHANGED <<heartbeats, last>>
               ELSE /\ heartbeats' = rep.table
                    /\ last' = Served("heartbeat", rep,
                                      Len(rep.table) - Len(heartbeats))
            /\ loops' = [loops EXCEPT ![i].pc = AfterHeartbeat(post(net, rep.code)),
                                      ![i].cur = "none"]
    /\ UNCHANGED <<AllowedAgentTypes, variant, agents, updates, now, registered, inflight>>
    /\ UNCHANGED <<intervalEnv, heartbeat, stopChan, log, hist, panicked, result>>

\* case <-a.stopChan: return
ExitAt(i) == i \in DOMAIN loops /\ LoopExitAt(i)

---------------------------------------------------------------------------
(* Specifications *)

\* event ingestion: raw requests to the event endpoints of the agent and the
\* worker handlers, after plain registrations
Init == InitServer({"agent", "worker"}) /\ InitClient

Next ==
    \/ RegisterHandler(FewRegisterBodies)
    \/ UpdateHandler(UpdateBodies)
    \/ HeartbeatHandler(HeartbeatBodies)

Spec == Init /\ [][Next]_vars

\* every status of the vocabulary, reported by one agent
NextStatuses ==
    \/ RegisterHandler(OneRegisterBody)
    \/ UpdateHandler(StatusUpdateBodies)
    \/ HeartbeatHandler(StatusHeartbeatBodies)

SpecStatuses == Init /\ [][NextStatuses]_vars

\* concurrent event requests of one agent under a running clock
NextIngest ==
    \/ RegisterHandler(OneRegisterBody)
    \/ ClockTick
    \/ UpdateBegin
    \/ HeartbeatBegin
    \/ UpdateEnd
    \/ HeartbeatEnd

SpecIngest == Init /\ [][NextIngest]_vars

\* the /agent deployment started under each value of ALLOWED_AGENT_TYPES
InitConfig == InitServerEnv({"agent"}, TypesEnvs) /\ InitClient

NextConfig == RegisterHandler(TypedRegisterBodies)

SpecConfig == InitConfig /\ [][NextConfig]_vars

\* registration: raw requests to the register endpoint of each variant
InitRegister == InitServer(Variants) /\ InitClient

NextRegister == RegisterHandler(RegisterBodies)

SpecRegister == InitRegister /\ [][NextRegister]_vars

TickerFire == \E i \in DOMAIN loops : TickerFireAt(i)
LoopSelect == \E i \in DOMAIN loops : LoopSelectAt(i)
LoopCall == \E i \in DOMAIN loops : LoopCallAt(i)
HeartbeatReturn == \E i \in DOMAIN loops : HeartbeatReturnAt(i)
LoopExit == \E i \in DOMAIN loops : LoopExitAt(i)

\* one agent of package agent against the deployment that routes /agent
InitLoop == InitServer({"agent"}) /\ InitClient

NextLoop ==
    \/ Register
    \/ StartHeartbeatLoop
    \/ StopHeartbeatLoop
    \/ TickerFire
    \/ LoopSelect
    \/ LoopCall
    \/ HeartbeatReturn
    \/ LoopExit

SpecLoop == InitLoop /\ [][NextLoop]_vars

Tick == \E i \in 1..MaxStarts : TickAt(i)
SelectTick == \E i \in 1..MaxStarts : SelectTickAt(i)
SelectStop == \E i \in 1..MaxStarts : SelectStopAt(i)
SelectBlock == \E i \in 1..MaxStarts : SelectBlockAt(i)
Call == \E i \in 1..MaxStarts : CallAt(i)
Return == \E i \in 1..MaxStarts : ReturnAt(i)
Exit == \E i \in 1..MaxStarts : ExitAt(i)

NextLive ==
    \/ StartHeartbeatLoop
    \/ StopHeartbeatLoop
    \/ Tick
    \/ SelectTick
    \/ SelectStop
    \/ SelectBlock
    \/ Call
    \/ Return
    \/ Exit

\* The scheduler runs every runnable goroutine, a heartbeat call returns
\* (Client.Timeout), and select chooses among its ready cases uniformly at
\* random, so a case that is ready again and again is chosen at some point.
FairLive ==
    \A i \in 1..MaxStarts :
        /\ WF_vars(CallAt(i))
        /\ WF_vars(ReturnAt(i))
        /\ WF_vars(ExitAt(i))
        /\ SF_vars(SelectStopAt(i))

SpecLive == InitLoop /\ [][NextLive]_vars /\ FairLive

\* ingestion with identities deleted underneath it
NextAdmin ==
    \/ RegisterHandler(OneRegisterBody)
    \/ ClockTick
    \/ UpdateBegin
    \/ HeartbeatBegin
    \/ UpdateEnd
    \/ HeartbeatEnd
    \/ DeleteAgent

SpecAdmin == Init /\ [][NextAdmin]_vars

\* concurrent Register requests for one id, under each deployment
NextConcurrent ==
    \/ RegisterBegin
    \/ RegisterEnd
    \/ ClockTick

SpecConcurrent == InitRegister /\ [][NextConcurrent]_vars

\* the heartbeat goroutine under each value of PULSE_HEARTBEAT_INTERVAL
InitInterval == InitServer({"agent"}) /\ InitClientEnv(IntervalEnvs)

SpecInterval == InitInterval /\ [][NextLive]_vars

\* the one-shot calls of one agent against a deployment that routes /agent
\* and one that routes /worker only
InitClientCalls == InitServer({"agent", "worker"}) /\ InitClient

NextClient == Register \/ Update \/ Heartbeat

SpecClient == InitClientCalls /\ [][NextClient]_vars

---------------------------------------------------------------------------
(* Properties *)

\* the nine lifecycle states of the specification's StatusVocabulary
StatusVocabulary ==
    {"starting", "healthy", "working", "idle", "error",
     "unreachable", "crashed", "stopped", "disabled"}

\* a valid identity: the id parses, the name is not empty, the type is allowed
ValidIdentity(req) ==
    /\ ~uuidParse(req.id).err
    /\ req.name # ""
    /\ req.type \in {"default"}

\* the request just served fails validation
InvalidRequest ==
    \/ uuidParse(last.req.id).err
    \/ last.op = "register" /\ (last.req.name = "" \/ last.req.type \notin {"default"})
    \/ last.op \in {"update", "heartbeat"} /\ last.req.status \notin StatusVocabulary

\* what the handler answers to the request just served when the store is unreachable
StorageFailureAnswer ==
    LET body == [malformed |-> FALSE, id |-> last.req.id, status |-> last.req.status,
                 message |-> "", info |-> last.req.message]
        rep == IF last.op = "update" THEN UpdateOf(variant, body, FALSE)
               ELSE HeartbeatOf(variant, body, FALSE)
    IN  <<rep.code, rep.error>>

\* C1: after a Register of a valid identity that reached the store, there is
\* exactly one identity row for its id, and the row's name, type and (where the
\* handler decodes it) info are those of this most recent call.
C1_IdempotentRegistration ==
    (last.op = "register" /\ ValidIdentity(last.req) /\ last.dberr # "conn")
    => /\ Cardinality(Row(last.uuid)) = 1
       /\ \A r \in Row(last.uuid) :
            /\ r.name = last.req.name
            /\ r.type = last.req.type
            /\ variant = "worker_info" => r.info = jsonMarshalInfo(last.req.info)

\* C2: an Update or Heartbeat that is valid, reaches the store and names an id
\* for which no Register has succeeded is answered with an error that is not
\* the answer given for a storage failure, and appends no event.
C2_UnknownAgentDistinct ==
    (/\ last.op \in {"update", "heartbeat"}
     /\ ~uuidParse(last.req.id).err
     /\ last.req.status \in StatusVocabulary
     /\ last.uuid \notin registered
     /\ last.dberr # "conn")
    => /\ last.code # 200
       /\ last.appended = 0
       /\ <<last.code, last.error>> # StorageFailureAnswer

\* C3: a Heartbeat whose status is not one of the nine (empty and missing
\* included) is answered 400 and appends no event, registered id or not.
C3_HeartbeatStatusRejected ==
    (last.op = "heartbeat" /\ last.req.status \notin StatusVocabulary)
    => (last.code = 400 /\ last.appended = 0)

\* C4: every persisted update event and heartbeat event has one of the nine
\* statuses, whichever handler accepted the request.
C4_PersistedStatusInVocabulary ==
    /\ \A i \in DOMAIN updates : updates[i].status \in StatusVocabulary
    /\ \A i \in DOMAIN heartbeats : heartbeats[i].status \in StatusVocabulary

\* C4 witness: the handlers that validate no status have stored an event and
\* have passed an unknown status to the store, which refused it.
C4_Witness ==
    /\ variant = "worker"
    /\ Len(updates) >= 1
    /\ last.op = "heartbeat"
    /\ last.req.status = "invalid_status"
    /\ last.uuid \in registered
    /\ last.dberr = "22P02"

\* C5: an Update with a non-empty status outside the nine is answered 400 or
\* 500, never 200, and appends no update event.
C5_UpdateUnknownStatusFails ==
    (last.op = "update" /\ last.req.status # ""
       /\ last.req.status \notin StatusVocabulary)
    => (last.code \in {400, 500} /\ last.appended = 0)

\* C5 witness: AgentUpdateHandler sent an unknown status for a registered agent
\* to a reachable store and answered 500.
C5_Witness ==
    /\ variant = "agent"
    /\ last.op = "update"
    /\ last.req.status = "invalid_status"
    /\ last.uuid \in registered
    /\ last.execs = 1
    /\ last.dberr = "22P02"
    /\ last.code = 500

\* C6: a request that fails validation (id no UUID, required field empty,
\* status or type outside the vocabulary) causes no call to the store.
C6_ValidationBeforeStorage ==
    (last.op # "none" /\ InvalidRequest) => last.execs = 0

\* C7: every Register answer is 200, 400 or 500; an id that already exists is
\* not answered with a conflict.
C7_RegisterNeverConflict ==
    last.op = "register" => last.code \in {200, 400, 500}

\* C8: a failed heartbeat never ends a loop (a goroutine leaves its loop only
\* on the stop signal), and while every heartbeat call has failed the failure
\* log lines number exactly the ticks handled, less the calls still in flight.
C8_LoopResilience ==
    /\ \A i \in DOMAIN loops :
         loops[i].pc \in {"gotStop", "exited"} => stopChan = "closed"
    /\ log.sent = 0
       => log.error + Cardinality({i \in DOMAIN loops : loops[i].pc = "call"})
            = hist.handled

\* C8 witness: two ticks handled, two failures logged, none sent, and the loop
\* is blocked in its select with the stop channel open.
C8_Witness ==
    /\ stopChan = "open"
    /\ hist.handled = 2
    /\ log.error = 2
    /\ log.sent = 0
    /\ \E i \in DOMAIN loops : loops[i].pc = "parked"

\* C9: once StopHeartbeatLoop has returned, no heartbeat call is started on a
\* tick that fires afterwards.
C9_NoHeartbeatOnTickAfterStop ==
    hist.late = 0

\* C10: after any sequence of StartHeartbeatLoop and StopHeartbeatLoop calls at
\* most one periodic heartbeat task of the agent is active.
C10_AtMostOneLoop ==
    Cardinality(Active) <= 1

\* how a StopHeartbeatLoop called in this state ends: close(a.stopChan)
\* returns on an open channel and panics on a closed one
StopOutcome == IF stopChan = "open" THEN "returned" ELSE "panic"

\* C11: StopHeartbeatLoop on an agent with no heartbeat goroutine alive has one
\* outcome: whenever the agent is idle, a stop ends as the stop before any
\* start ends, which returns.
C11_StopOnIdleConsistent ==
    (Active = {} /\ ~panicked) => StopOutcome = "returned"

\* C12: a Register whose id is no UUID, whose name is empty or missing, or
\* whose type is missing or not allowed is answered 400 and leaves the
\* identity table as it was.
C12_InvalidRegisterRejected ==
    [][(last'.op = "register" /\ ~ValidIdentity(last'.req))
       => (last'.code = 400 /\ agents' = agents)]_vars

C15_StorageFailureReported ==
    (last.op # "none" /\ last.dberr \notin {"", "23505"})
    => /\ last.code = 500
       /\ last.execs = 1
       /\ last.appended = 0
       /\ last.op = "register" => Row(last.uuid) = {} \/ last.uuid \in registered

\* C15 witness: a heartbeat of a registered agent met an unreachable store
\* and was answered 500.
C15_Witness ==
    /\ last.op = "heartbeat"
    /\ last.uuid \in registered
    /\ last.req.status = "healthy"
    /\ last.dberr = "conn"
    /\ last.code = 500
    /\ heartbeats = <<>>

\* C14: when Agent.Update(status, message) was answered 200, the update event
\* the server appended for it carries the message the caller passed.
C14_MessageRecorded ==
    (result.op = "update" /\ result.code = 200)
    => /\ Len(updates) >= 1
       /\ updates[Len(updates)].message = result.message

\* C16: a one-shot Register, Update or Heartbeat returns nil exactly when a
\* response with status 200 was received; it returns an error when no
\* response was received (no delivery, no response within Client.Timeout)
\* and when the response has any other status.
C16_OneShotErrors ==
    result.op # "none"
    => /\ (result.err = "nil") <=> (result.code = 200)
       /\ (result.code = 0) => result.err = "post error"
       /\ (result.code \notin {0, 200}) => result.err = "server returned status"

\* C16 witness: the three outcomes in turn: a register answered 200 returned
\* nil, then an update answered with another status returned an error.
C16_Witness ==
    /\ result.op = "update"
    /\ result.code \in {400, 404, 500}
    /\ result.err = "server returned status"
    /\ AgentID \in registered

\* C17: in each event stream the timestamps of one agent's events never
\* decrease in insertion order, whatever the interleaving of the requests,
\* and every timestamp is a reading of the store's clock.
C17_TimestampsMonotone ==
    /\ \A i, j \in DOMAIN updates :
         (i < j /\ updates[i].agent_id = updates[j].agent_id)
         => updates[i].time <= updates[j].time
    /\ \A i, j \in DOMAIN heartbeats :
         (i < j /\ heartbeats[i].agent_id = heartbeats[j].agent_id)
         => heartbeats[i].time <= heartbeats[j].time
    /\ \A i \in DOMAIN updates : updates[i].time \in 0..now
    /\ \A i \in DOMAIN heartbeats : heartbeats[i].time \in 0..now

\* C18: no Register, Update or Heartbeat changes or removes an event already
\* written: each stream only grows at its end.
C18_AppendOnly ==
    [][/\ Len(updates') >= Len(updates)
       /\ SubSeq(updates', 1, Len(updates)) = updates
       /\ Len(heartbeats') >= Len(heartbeats)
       /\ SubSeq(heartbeats', 1, Len(heartbeats)) = heartbeats]_vars

\* C18 witness: with two update events written, the agent registered again.
C18_Witness ==
    /\ Len(updates) = 2
    /\ last.op = "register"
    /\ last.code = 200
    /\ \E r \in agents : r.time > updates[1].time

\* C19: two heartbeat calls issued by the periodic heartbeat task of one agent
\* are never in flight at the same time.
C19_HeartbeatsSerialized ==
    Cardinality({i \in DOMAIN loops : loops[i].pc = "call"}) <= 1

\* C20: once StopHeartbeatLoop has been called, every heartbeat goroutine
\* eventually returns (unless the process has died), however many ticks
\* arrive and however long the heartbeat calls take.
C20_StoppedLoopTerminates ==
    \A i \in 1..MaxStarts :
        (i \in DOMAIN loops /\ stopChan = "closed")
            ~> (panicked \/ (i \in DOMAIN loops /\ loops[i].pc = "exited"))

\* C20 witness: after the stop one goroutine has returned while another is
\* still inside a heartbeat call it started on a tick that fired after it.
C20_Witness ==
    /\ stopChan = "closed"
    /\ ~panicked
    /\ \E i, j \in DOMAIN loops :
         /\ loops[i].pc = "exited"
         /\ loops[j].pc = "call"
         /\ loops[j].cur = "late"

\* C21: a Register answered 200 adds no update and no heartbeat event, leaves
\* every identity row of another id as it was, and keeps the id of every
\* row there was.
C21_RegisterFrame ==
    [][(last'.op = "register" /\ last'.code = 200)
       => /\ updates' = updates
          /\ heartbeats' = heartbeats
          /\ \A r \in agents : r.id # last'.uuid => r \in agents'
          /\ \A r \in agents : Cardinality({q \in agents' : q.id = r.id}) = 1]_vars

\* C21 witness: with an update event stored and another identity present, a
\* Register was answered 200.
C21_Witness ==
    /\ last.op = "register"
    /\ last.code = 200
    /\ Len(updates) >= 1
    /\ \E r \in agents : r.id # last.uuid

\* the events of a stream without their timestamps
Untimed(rows) ==
    {[f \in DOMAIN rows[i] \ {"time"} |-> rows[i][f]] : i \in DOMAIN rows}

\* the step serves again the request served just before it, and both reached
\* the store
Replay ==
    /\ last.op # "none"
    /\ last'.op = last.op
    /\ last'.req = last.req
    /\ last.dberr # "conn"
    /\ last'.dberr # "conn"

\* C22 as stated: a replayed request leaves the durable state as the first
\* sending left it, but for the timestamp of the event a replayed Update or
\* Heartbeat adds; the identity rows are the same in every column.
C22_ReplaySameState ==
    [][Replay => /\ agents' = agents
                 /\ Untimed(updates') = Untimed(updates)
                 /\ Untimed(heartbeats') = Untimed(heartbeats)]_vars

\* C22 amended: a replayed request leaves the durable state as the first
\* sending left it, but for a new timestamp: that of the added event for
\* Update and Heartbeat, the refreshed time of the identity row for Register.
C22_ReplaySameStateButTime ==
    [][Replay => /\ Untimed(updates') = Untimed(updates)
                 /\ Untimed(heartbeats') = Untimed(heartbeats)
                 /\ {[id |-> r.id, name |-> r.name, type |-> r.type, info |-> r.info] :
                        r \in agents'}
                    = {[id |-> r.id, name |-> r.name, type |-> r.type, info |-> r.info] :
                        r \in agents}]_vars

\* C22 witness: an update was replayed; the stream holds the event twice, at
\* two times.
C22_Witness ==
    /\ last.op = "update"
    /\ Len(updates) = 2
    /\ updates[1].status = updates[2].status
    /\ updates[1].time # updates[2].time

\* C23: a Register with a valid id and name is accepted (not answered 400)
\* exactly when its type is an entry of the list app.New configured, and the
\* entries of that list are the types the handler checks against.
C23_ConfiguredTypesChecked ==
    (last.op = "register" /\ ~uuidParse(last.req.id).err /\ last.req.name # "")
    => /\ (last.code # 400)
          <=> \E i \in DOMAIN AllowedAgentTypes :
                 AllowedAgentTypes[i] = TypeText(last.req.type)
       /\ {AllowedAgentTypes[i] : i \in DOMAIN AllowedAgentTypes}
          = {TypeText(t) : t \in allowedAgentTypes}

\* C24: the interval is 60 seconds when PULSE_HEARTBEAT_INTERVAL is unset or
\* is no duration and the parsed value otherwise; under every such interval
\* StartHeartbeatLoop does not fail and every goroutine it started runs a
\* ticker of that interval.
C24_IntervalConfigured ==
    /\ heartbeat = IF intervalEnv = "" \/ ParseDuration(intervalEnv).err
                   THEN 60 ELSE ParseDuration(intervalEnv).d
    /\ hist.panic # "non-positive interval for NewTicker"
    /\ \A i \in DOMAIN loops : loops[i].interval = heartbeat

\* C25: whenever the statement of one of several concurrent Register requests
\* for the same id has executed against a reachable store, the request is
\* answered 200, the store holds exactly one identity record for the id, and
\* the record's name and type are those of a single one of the requests.
C25_ConcurrentRegisterAtomic ==
    (last.op = "register" /\ last.execs = 1 /\ last.dberr # "conn")
    => /\ last.code = 200
       /\ Cardinality(Row(last.uuid)) = 1
       /\ \A r \in Row(last.uuid) :
              \E b \in ConcurrentRegisterBodies : r.name = b.name /\ r.type = b.type

\* C26: every recorded update or heartbeat is for an id whose Register has
\* succeeded; while the agent's Register has not succeeded, no heartbeat of
\* its loop has succeeded, no event is recorded, and no loop goroutine has
\* exited unless the agent was stopped.
C26_NoEventBeforeRegister ==
    /\ \A k \in DOMAIN updates : updates[k].agent_id \in registered
    /\ \A k \in DOMAIN heartbeats : heartbeats[k].agent_id \in registered
    /\ AgentID \notin registered
       => /\ log.sent = 0
          /\ updates = <<>> /\ heartbeats = <<>>
          /\ \A i \in DOMAIN loops : loops[i].pc = "exited" => stopChan = "closed"

\* an agent that never registered has had two loop heartbeats refused by the
\* store for the missing identity, and its goroutine waits for the next tick
C26_Witness ==
    /\ AgentID \notin registered
    /\ last.op = "heartbeat" /\ last.dberr = "23503"
    /\ log.error >= 2
    /\ stopChan = "open"
    /\ \E i \in DOMAIN loops : loops[i].pc = "select"

\* C27: the stop channel, once closed, stays closed, and every heartbeat
\* goroutine started after StopHeartbeatLoop was called eventually returns
\* (unless the process has died).
C27_StopNeverReset ==
    /\ [][stopChan = "closed" => stopChan' = "closed"]_vars
    /\ \A i \in 1..MaxStarts :
          (i \in DOMAIN loops /\ loops[i].after)
              ~> (panicked \/ (i \in DOMAIN loops /\ loops[i].pc = "exited"))

\* C27 witness: a goroutine started after the stop has returned
C27_Witness ==
    /\ stopChan = "closed"
    /\ ~panicked
    /\ \E i \in DOMAIN loops : loops[i].after /\ loops[i].pc = "exited"

\* C28: a step that serves an update or a heartbeat leaves every identity
\* record as it was (name, type, info and last-seen time), and the last-seen
\* time of a record changes only in a step that serves a Register for its id.
C28_EventsLeaveIdentity ==
    [][/\ last'.op \in {"update", "heartbeat"} => agents' = agents
       /\ \A r \in agents, q \in agents' :
             (q.id = r.id /\ q.time # r.time)
                 => (last'.op = "register" /\ last'.uuid = r.id)]_vars

\* C28 witness: a heartbeat was recorded at a later time than the one the
\* identity record carries
C28_Witness ==
    /\ last.op = "heartbeat" /\ last.code = 200
    /\ \E r \in agents, k \in DOMAIN heartbeats :
          heartbeats[k].agent_id = r.id /\ heartbeats[k].time > r.time

\* C29: every persisted update and heartbeat refers to an identity record
\* that exists, also after identities have been deleted.
C29_NoOrphanEvents ==
    /\ \A k \in DOMAIN updates : Row(updates[k].agent_id) # {}
    /\ \A k \in DOMAIN heartbeats : Row(heartbeats[k].agent_id) # {}

\* C29 witness: an identity was deleted while it had two events, and they
\* went with it
C29_Witness ==
    /\ last.op = "delete"
    /\ last.appended = -2
    /\ Row(last.uuid) = {}
    /\ updates = <<>> /\ heartbeats = <<>>

\* C30: the allow-list of AgentHeartbeatHandler has exactly the values of the
\* enum agent_state, the status the loop sends is in both, and a heartbeat
\* that passed the allow-list and whose statement the store executed was not
\* refused for its status (SQLSTATE 22P02).
C30_AllowListIsEnum ==
    /\ allowedAgentStatus = agent_state
    /\ HeartbeatPayload("healthy").status \in allowedAgentStatus \cap agent_state
    /\ (variant = "agent" /\ last.op = "heartbeat" /\ last.execs = 1)
       => last.dberr # "22P02"

\* C30 witness: a heartbeat with a status other than the loop's passed the
\* allow-list and the store recorded it
C30_Witness ==
    /\ variant = "agent"
    /\ last.op = "heartbeat" /\ last.code = 200
    /\ last.req.status = "stopped"
    /\ \E k \in DOMAIN heartbeats : heartbeats[k].status = "stopped"

=============================================================================
